---- MODULE Spec2Model ----
(***************************************************************************)
(* Casting-agency backend: the authorization pipeline of auth/auth.py      *)
(* (get_token_auth_header, verify_decode_jwt, check_permissions,           *)
(* requires_auth), the routes and error handlers of api.py, and the two    *)
(* tables of models.py.                                                    *)
(*                                                                         *)
(* Text is modelled as a sequence of one-character strings, so that        *)
(* str.split() and str.lower() are computed character by character.        *)
(* A function's outcome is a record: kind "return" with a value, kind      *)
(* "AuthError" with code, description and status_code, kind                 *)
(* "HTTPException" (flask abort) with a status, or kind "Exception" with   *)
(* the name of any other Python exception that escapes.                    *)
(***************************************************************************)
EXTENDS Integers, Sequences, FiniteSets, TLC

VARIABLES actors, movies, nextActorId, nextMovieId, pc, req, resp, log

vars == <<actors, movies, nextActorId, nextMovieId, pc, req, resp, log>>

(***************************************************************************)
(* Bounds of the model.                                                    *)
(***************************************************************************)
\* Authorization header texts are concatenations of at most MaxChunks chunks.
MaxChunks == 4
\* The key-set document lists at most MaxKeys keys.
MaxKeys == 2
\* At most MaxInserts rows are inserted in a run (both tables together).
MaxInserts == 2

(***************************************************************************)
(* Outcomes.                                                               *)
(***************************************************************************)
Return(v) == [kind |-> "return", value |-> v]

Exception(name) == [kind |-> "Exception", name |-> name]

\* auth.py: class AuthError(error = {code, description}, status_code)
AuthError(code, description, status_code) ==
  [kind |-> "AuthError", code |-> code, description |-> description,
   status_code |-> status_code]

\* flask.abort(status, description=...)
abort(status, description) ==
  [kind |-> "HTTPException", code |-> status, description |-> description]

(***************************************************************************)
(* Text: str.split() and str.lower().                                      *)
(***************************************************************************)
Whitespace == {" ", "\t"}

UpperCase == <<"A", "B", "C", "D", "E", "F", "G", "H", "I", "J", "K", "L", "M",
               "N", "O", "P", "Q", "R", "S", "T", "U", "V", "W", "X", "Y", "Z">>

LowerCase == <<"a", "b", "c", "d", "e", "f", "g", "h", "i", "j", "k", "l", "m",
               "n", "o", "p", "q", "r", "s", "t", "u", "v", "w", "x", "y", "z">>

lower_char(c) ==
  IF \E i \in 1..Len(UpperCase) : UpperCase[i] = c
  THEN LowerCase[CHOOSE i \in 1..Len(UpperCase) : UpperCase[i] = c]
  ELSE c

\* str.lower()
lower(s) == [i \in 1..Len(s) |-> lower_char(s[i])]

RECURSIVE split_acc(_, _, _)
split_acc(s, cur, acc) ==
  IF s = <<>>
  THEN IF cur = <<>> THEN acc ELSE Append(acc, cur)
  ELSE IF Head(s) \in Whitespace
       THEN split_acc(Tail(s), <<>>, IF cur = <<>> THEN acc ELSE Append(acc, cur))
       ELSE split_acc(Tail(s), Append(cur, Head(s)), acc)

\* A bug variant of split: str.split(" "), which cuts at every single space
\* (keeping empty parts) and knows no other whitespace.
RECURSIVE split_space_acc(_, _, _)
split_space_acc(s, cur, acc) ==
  IF s = <<>>
  THEN Append(acc, cur)
  ELSE IF Head(s) = " "
       THEN split_space_acc(Tail(s), <<>>, Append(acc, cur))
       ELSE split_space_acc(Tail(s), Append(cur, Head(s)), acc)

split_on_space(s) == split_space_acc(s, <<>>, <<>>)

\* str.split() with no separator: cut at runs of whitespace, no empty parts.
split(s) == split_acc(s, <<>>, <<>>)

Bearer == <<"b", "e", "a", "r", "e", "r">>

(***************************************************************************)
(* auth.py: get_token_auth_header.  auth is the Authorization header:      *)
(* [present, text]; request.headers.get("Authorization", None) is None     *)
(* when it is not present.                                                 *)
(***************************************************************************)
NoHeader == [present |-> FALSE, text |-> <<>>]

Header(text) == [present |-> TRUE, text |-> text]

get_token_auth_header(auth) ==
  IF ~auth.present \/ auth.text = <<>>
  THEN AuthError("authorization_header_missing",
                 "Authorization header is expected.", 401)
  ELSE LET parts == split(auth.text) IN
       IF parts = <<>>
       THEN Exception("IndexError")
       ELSE IF lower(parts[1]) # Bearer
       THEN AuthError("invalid_header",
                      "Authorization header must start with 'Bearer'.", 401)
       ELSE IF Len(parts) = 1
       THEN AuthError("invalid_header", "Token not found.", 401)
       ELSE IF Len(parts) > 2
       THEN AuthError("invalid_header",
                      "Authorization header must be 'Bearer <token>'.", 401)
       ELSE Return(parts[2])

(***************************************************************************)
(* Header texts of the model: concatenations of chunks.                    *)
(***************************************************************************)
Chunks == { <<"B", "e", "a", "r", "e", "r">>,
            <<"b", "e", "a", "r", "e", "r">>,
            <<"B", "E", "A", "R", "E", "R">>,
            <<"B", "a", "s", "i", "c">>,
            <<"t", "k">>,
            <<"x">>,
            <<" ">>,
            <<"\t">> }

RECURSIVE Flatten(_)
Flatten(cs) == IF cs = <<>> THEN <<>> ELSE Head(cs) \o Flatten(Tail(cs))

HeaderTexts ==
  UNION { { Flatten(cs) : cs \in [1..n -> Chunks] } : n \in 0..MaxChunks }

Headers == {NoHeader} \cup { Header(t) : t \in HeaderTexts }

(***************************************************************************)
(* Tokens and key sets.  A token is what the client was issued: its text   *)
(* and what python-jose reads out of that text.  hdr says whether the      *)
(* token header parses and carries a kid; signer is the key material the   *)
(* signature was made with; claims is the payload.                         *)
(***************************************************************************)
TokenText == <<"t", "k">>

Kids == {"k1", "k2"}

Material == {"n1", "n2"}

Permissions == {"get:actors", "get:movies", "post:actors", "post:movies",
                "patch:actors", "patch:movies", "delete:actors", "delete:movies"}

Claims(hasPermissions, permissions) ==
  [hasPermissions |-> hasPermissions, permissions |-> permissions]

Token(hdr, kid, signer, expired, audOk, issOk, claims) ==
  [text |-> TokenText, hdr |-> hdr, kid |-> kid, signer |-> signer,
   expired |-> expired, audOk |-> audOk, issOk |-> issOk, claims |-> claims]

\* One entry of the "keys" array of the key-set document.  hasKid: the entry
\* has a "kid"; complete: it has "kty", "use", "n" and "e".
Key(hasKid, kid, complete, n) ==
  [hasKid |-> hasKid, kid |-> kid, complete |-> complete, n |-> n]

\* What the key-set endpoint answers: "unreachable" (urlopen raises),
\* "notjson" (json.loads raises), "nokeys" (a JSON object with no "keys"),
\* "ok" (a JSON object with the keys listed).
Jwks(status, keys) == [status |-> status, keys |-> keys]

(***************************************************************************)
(* python-jose, as auth.py uses it.                                        *)
(***************************************************************************)
\* jwt.get_unverified_header(token): JWTError when the text is not the text
\* of a token whose header parses.
get_unverified_header(token, jwt) ==
  IF token # jwt.text \/ jwt.hdr = "malformed"
  THEN Exception("JWTError")
  ELSE Return([hasKid |-> jwt.hdr = "kid", kid |-> jwt.kid])

\* jwt.decode(token, rsa_key, algorithms, audience, issuer): the signature is
\* verified first, then exp, then aud, then iss.
decode(token, rsa_key, jwt) ==
  IF token # jwt.text \/ jwt.hdr = "malformed" \/ jwt.signer # rsa_key.n
  THEN Exception("JWTError")
  ELSE IF jwt.expired THEN Exception("ExpiredSignatureError")
  ELSE IF ~jwt.audOk THEN Exception("JWTClaimsError")
  ELSE IF ~jwt.issOk THEN Exception("JWTClaimsError")
  ELSE Return(jwt.claims)

(***************************************************************************)
(* auth.py: verify_decode_jwt.                                             *)
(***************************************************************************)
EmptyKey == [found |-> FALSE, kid |-> "", n |-> ""]

\* for key in jwks["keys"]: if key["kid"] == unverified_header["kid"]: rsa_key = {...}
RECURSIVE find_rsa_key(_, _, _)
find_rsa_key(keys, kid, rsa_key) ==
  IF keys = <<>>
  THEN Return(rsa_key)
  ELSE LET key == Head(keys) IN
       IF ~key.hasKid
       THEN Exception("KeyError")
       ELSE IF key.kid = kid
       THEN IF ~key.complete
            THEN Exception("KeyError")
            ELSE find_rsa_key(Tail(keys), kid,
                              [found |-> TRUE, kid |-> key.kid, n |-> key.n])
       ELSE find_rsa_key(Tail(keys), kid, rsa_key)

\* A bug variant: a header without kid gets the status of a header that does
\* not parse.
missing_kid_error_400 ==
  AuthError("invalid_header", "Authorization header is malformed.", 400)

missing_kid_error ==
  AuthError("invalid_header", "Authorization header is malformed.", 401)

verify_decode_jwt(token, jwt, jwks) ==
  IF jwks.status = "unreachable" THEN Exception("URLError")
  ELSE IF jwks.status = "notjson" THEN Exception("JSONDecodeError")
  ELSE
  LET unverified_header == get_unverified_header(token, jwt) IN
  IF unverified_header.kind # "return"
  THEN AuthError("invalid_header",
                 "Error decoding token header: Error decoding token headers.", 400)
  ELSE IF ~unverified_header.value.hasKid
  THEN missing_kid_error
  ELSE IF jwks.status = "nokeys" THEN Exception("KeyError")
  ELSE
  LET rsa_key == find_rsa_key(jwks.keys, unverified_header.value.kid, EmptyKey) IN
  IF rsa_key.kind # "return" THEN rsa_key
  ELSE IF rsa_key.value.found
  THEN LET payload == decode(token, rsa_key.value, jwt) IN
       IF payload.kind = "return" THEN payload
       ELSE IF payload.name = "ExpiredSignatureError"
       THEN AuthError("token_expired", "Token is expired.", 401)
       ELSE IF payload.name = "JWTClaimsError"
       THEN AuthError("invalid_claims",
                      "Incorrect claims. Check audience and issuer.", 401)
       ELSE AuthError("invalid_header",
                      "Unable to parse authentication token.", 400)
  ELSE AuthError("invalid_header", "Unable to find the appropriate key.", 400)

(***************************************************************************)
(* auth.py: check_permissions.                                             *)
(***************************************************************************)
\* A bug variant: a payload without permissions is let through.
check_permissions_lenient(permission, payload) ==
  IF payload.hasPermissions /\ permission \notin payload.permissions
  THEN AuthError("unauthorized", "Permission not found.", 403)
  ELSE Return(TRUE)

check_permissions(permission, payload) ==
  IF ~payload.hasPermissions
  THEN AuthError("invalid_claims", "Permissions not included in JWT.", 403)
  ELSE IF permission \notin payload.permissions
  THEN AuthError("unauthorized", "Permission not found.", 403)
  ELSE Return(TRUE)

(***************************************************************************)
(* models.py: the two tables.  db is [actors, movies, nextActorId,         *)
(* nextMovieId]: a table is the set of its rows, the next id is the        *)
(* primary key the next insert is given.  Query results are sets: the      *)
(* order of Actor.query.all() is not modelled.  A release date is kept as  *)
(* its ISO text.                                                           *)
(***************************************************************************)
Db(a, m, na, nm) ==
  [actors |-> a, movies |-> m, nextActorId |-> na, nextMovieId |-> nm]

\* Actor.format / Movie.format
format(row) == row

\* Model.query.get(id): the row with that primary key, if any
query_has(table, id) == \E row \in table : row.id = id

query_get(table, id) == CHOOSE row \in table : row.id = id

\* Actor.insert: db.session.add + commit
insert_actor(db, row) ==
  [db EXCEPT !.actors = @ \cup {row}, !.nextActorId = @ + 1]

\* Movie.insert
insert_movie(db, row) ==
  [db EXCEPT !.movies = @ \cup {row}, !.nextMovieId = @ + 1]

\* Actor.update: commit of the changed row
update_actor_row(db, old, new) ==
  [db EXCEPT !.actors = (@ \ {old}) \cup {new}]

\* Movie.update
update_movie_row(db, old, new) ==
  [db EXCEPT !.movies = (@ \ {old}) \cup {new}]

\* A bug variant: the delete empties the table.
delete_actor_row_all(db, row) == [db EXCEPT !.actors = {}]

\* Actor.delete: db.session.delete + commit
delete_actor_row(db, row) == [db EXCEPT !.actors = @ \ {row}]

\* Movie.delete
delete_movie_row(db, row) == [db EXCEPT !.movies = @ \ {row}]

(***************************************************************************)
(* api.py: the views.  Each takes the decoded claims, the request and the  *)
(* database and gives [out, db]: its outcome and the database after it.    *)
(* A request body is a JSON object: fields is the set of its keys, and a   *)
(* key that is not in it has no value (the record's entry is a filler).    *)
(***************************************************************************)
jsonify(body) ==
  [status |-> 200, mimetype |-> "application/json", body |-> body]

\* (jsonify(...), status)
with_status(response, status) == [response EXCEPT !.status = status]

View(out, db) == [out |-> out, db |-> db]

\* `not body.get(k, None)` for a text field ("" is falsy) and a number (0 is)
not_text(body, k) == k \notin body.fields \/ body[k] = ""

not_number(body, k) == k \notin body.fields \/ body[k] = 0

get_health == Return(jsonify([success |-> TRUE, health |-> TRUE]))

\* A bug variant: .first() for .all(): one actor is listed.
get_actors_first(jwt, r, db) ==
  IF db.actors = {}
  THEN View(abort(404, "No actors found"), db)
  ELSE View(Return(jsonify([success |-> TRUE,
                            actors |-> { format(CHOOSE a \in db.actors : TRUE) }])),
            db)

get_actors(jwt, r, db) ==
  IF db.actors = {}
  THEN View(abort(404, "No actors found"), db)
  ELSE View(Return(jsonify([success |-> TRUE,
                            actors |-> { format(a) : a \in db.actors }])), db)

get_movies(jwt, r, db) ==
  IF db.movies = {}
  THEN View(abort(404, "No movies found"), db)
  ELSE View(Return(jsonify([success |-> TRUE,
                            movies |-> { format(m) : m \in db.movies }])), db)

create_actor(jwt, r, db) ==
  LET body == r.body IN
  IF body.fields = {}
  THEN View(abort(400, "Bad request, no data provided"), db)
  ELSE IF not_text(body, "name") \/ not_number(body, "age")
          \/ not_text(body, "gender")
  THEN View(abort(400, "Missing required fields"), db)
  ELSE LET new_actor == [id |-> db.nextActorId, name |-> body.name,
                         age |-> body.age, gender |-> body.gender] IN
       View(Return(jsonify([success |-> TRUE, actor |-> format(new_actor)])),
            insert_actor(db, new_actor))

create_movie(jwt, r, db) ==
  LET body == r.body IN
  IF body.fields = {}
  THEN View(abort(400, "Bad request, no data provided"), db)
  ELSE IF not_text(body, "title") \/ not_text(body, "release_date")
  THEN View(abort(400, "Missing required fields"), db)
  ELSE LET new_movie == [id |-> db.nextMovieId, title |-> body.title,
                         release_date |-> body.release_date] IN
       View(Return(jsonify([success |-> TRUE, movie |-> format(new_movie)])),
            insert_movie(db, new_movie))

update_actor(jwt, r, db) ==
  IF ~query_has(db.actors, r.id)
  THEN View(abort(404, "Actor not found"), db)
  ELSE LET actor == query_get(db.actors, r.id)
           body == r.body
           new == [id |-> actor.id,
                   name |-> IF "name" \in body.fields THEN body.name
                            ELSE actor.name,
                   age |-> IF "age" \in body.fields THEN body.age
                           ELSE actor.age,
                   gender |-> IF "gender" \in body.fields THEN body.gender
                              ELSE actor.gender] IN
       View(Return(jsonify([success |-> TRUE, actor |-> format(new)])),
            update_actor_row(db, actor, new))

update_movie(jwt, r, db) ==
  IF ~query_has(db.movies, r.id)
  THEN View(abort(404, "Movie not found"), db)
  ELSE LET movie == query_get(db.movies, r.id)
           body == r.body
           new == [id |-> movie.id,
                   title |-> IF "title" \in body.fields THEN body.title
                             ELSE movie.title,
                   release_date |-> IF "release_date" \in body.fields
                                    THEN body.release_date
                                    ELSE movie.release_date] IN
       View(Return(jsonify([success |-> TRUE, movie |-> format(new)])),
            update_movie_row(db, movie, new))

delete_actor(jwt, r, db) ==
  IF ~query_has(db.actors, r.id)
  THEN View(abort(404, "Actor not found"), db)
  ELSE View(Return(jsonify([success |-> TRUE, delete |-> r.id])),
            delete_actor_row(db, query_get(db.actors, r.id)))

delete_movie(jwt, r, db) ==
  IF ~query_has(db.movies, r.id)
  THEN View(abort(404, "Movie not found"), db)
  ELSE View(Return(jsonify([success |-> TRUE, delete |-> r.id])),
            delete_movie_row(db, query_get(db.movies, r.id)))

\* The view a route registers, by name.
call_view(f, jwt, r, db) ==
  CASE f = "get_actors" -> get_actors(jwt, r, db)
    [] f = "get_movies" -> get_movies(jwt, r, db)
    [] f = "create_actor" -> create_actor(jwt, r, db)
    [] f = "create_movie" -> create_movie(jwt, r, db)
    [] f = "update_actor" -> update_actor(jwt, r, db)
    [] f = "update_movie" -> update_movie(jwt, r, db)
    [] f = "delete_actor" -> delete_actor(jwt, r, db)
    [] f = "delete_movie" -> delete_movie(jwt, r, db)

(***************************************************************************)
(* auth.py: requires_auth(permission)(f).  Gives [out, db, log]: the       *)
(* wrapper's outcome, the database after it, and the calls it made in      *)
(* order, each [fn, arg, out].                                             *)
(***************************************************************************)
Call(fn, arg, out) == [fn |-> fn, arg |-> arg, out |-> out]

Wrapped(out, db, calls) == [out |-> out, db |-> db, log |-> calls]

\* A bug variant: the result of check_permissions is dropped (the check
\* returns a value instead of raising, and nobody reads it).
requires_auth_unchecked(permission, f, r, db) ==
  LET token == get_token_auth_header(r.header)
      c1 == <<Call("get_token_auth_header", r.header, token)>> IN
  IF token.kind # "return" THEN Wrapped(token, db, c1)
  ELSE
  LET payload == verify_decode_jwt(token.value, r.jwt, r.jwks)
      c2 == Append(c1, Call("verify_decode_jwt", token.value, payload)) IN
  IF payload.kind # "return" THEN Wrapped(payload, db, c2)
  ELSE
  LET checked == check_permissions(permission, payload.value)
      c3 == Append(c2, Call("check_permissions",
                            <<permission, payload.value>>, checked))
      v == call_view(f, payload.value, r, db) IN
  Wrapped(v.out, v.db, Append(c3, Call(f, payload.value, v.out)))

requires_auth(permission, f, r, db) ==
  LET token == get_token_auth_header(r.header)
      c1 == <<Call("get_token_auth_header", r.header, token)>> IN
  IF token.kind # "return" THEN Wrapped(token, db, c1)
  ELSE
  LET payload == verify_decode_jwt(token.value, r.jwt, r.jwks)
      c2 == Append(c1, Call("verify_decode_jwt", token.value, payload)) IN
  IF payload.kind # "return" THEN Wrapped(payload, db, c2)
  ELSE
  LET checked == check_permissions(permission, payload.value)
      c3 == Append(c2, Call("check_permissions",
                            <<permission, payload.value>>, checked)) IN
  IF checked.kind # "return" THEN Wrapped(checked, db, c3)
  ELSE
  LET v == call_view(f, payload.value, r, db) IN
  Wrapped(v.out, v.db, Append(c3, Call(f, payload.value, v.out)))

(***************************************************************************)
(* api.py: the error handlers, and what Flask answers without one.         *)
(***************************************************************************)
auth_error(error) ==
  with_status(jsonify([success |-> FALSE, error |-> error.status_code,
                       message |-> error.description]), error.status_code)

unprocessable(error) ==
  with_status(jsonify([success |-> FALSE, error |-> 422,
                       message |-> "unprocessable"]), 422)

not_found(error) ==
  with_status(jsonify([success |-> FALSE, error |-> 404,
                       message |-> "resource not found"]), 404)

internal_server_error(error) ==
  with_status(jsonify([success |-> FALSE, error |-> 500,
                       message |-> "Internal Server Error. Please try again later."]),
              500)

\* werkzeug's own page for an HTTPException no handler is registered for
default_error_page(error) ==
  [status |-> error.code, mimetype |-> "text/html",
   body |-> [html |-> error.description]]

\* The response Flask sends for a view's outcome.
handle_outcome(out) ==
  CASE out.kind = "return" -> out.value
    [] out.kind = "AuthError" -> auth_error(out)
    [] out.kind = "HTTPException" ->
         IF out.code = 422 THEN unprocessable(out)
         ELSE IF out.code = 404 THEN not_found(out)
         ELSE IF out.code = 500 THEN internal_server_error(out)
         ELSE default_error_page(out)
    [] out.kind = "Exception" -> internal_server_error(out)

(***************************************************************************)
(* Tokens and key sets of the model.                                       *)
(***************************************************************************)
ClaimsOfModel ==
  { Claims(FALSE, {}), Claims(TRUE, {}), Claims(TRUE, {"get:actors"}) }

Tokens ==
  { Token(hdr, kid, signer, expired, audOk, issOk, claims) :
      hdr \in {"malformed", "nokid", "kid"}, kid \in Kids, signer \in Material,
      expired \in BOOLEAN, audOk \in BOOLEAN, issOk \in BOOLEAN,
      claims \in ClaimsOfModel }

KeyEntries ==
  { Key(TRUE, kid, TRUE, n) : kid \in Kids, n \in Material }
    \cup { Key(TRUE, kid, FALSE, "n1") : kid \in Kids }
    \cup { Key(FALSE, "k1", TRUE, "n1") }

KeyLists == UNION { [1..n -> KeyEntries] : n \in 0..MaxKeys }

KeySets ==
  { Jwks("unreachable", <<>>), Jwks("notjson", <<>>), Jwks("nokeys", <<>>) }
    \cup { Jwks("ok", keys) : keys \in KeyLists }

(***************************************************************************)
(* Requests of the model.                                                  *)
(***************************************************************************)
NoBody == [fields |-> {}]

ActorBody(fields, name, age) ==
  [fields |-> fields, name |-> name, age |-> age, gender |-> "F"]

MovieBody(fields, title) ==
  [fields |-> fields, title |-> title, release_date |-> "2020-01-01"]

ActorBodies ==
  { ActorBody({}, "", 0), ActorBody({"name"}, "a1", 0),
    ActorBody({"name", "age", "gender"}, "a1", 0),
    ActorBody({"name", "age", "gender"}, "", 40),
    ActorBody({"name", "age", "gender"}, "a1", 40),
    ActorBody({"name", "age", "gender"}, "a2", 40) }

ActorPatches ==
  { ActorBody({}, "", 0), ActorBody({"name"}, "a1", 0),
    ActorBody({"name"}, "a2", 0) }

MovieBodies ==
  { MovieBody({}, ""), MovieBody({"title"}, "m1"),
    MovieBody({"title", "release_date"}, ""),
    MovieBody({"title", "release_date"}, "m1"),
    MovieBody({"title", "release_date"}, "m2") }

MoviePatches ==
  { MovieBody({}, ""), MovieBody({"title"}, "m1"), MovieBody({"title"}, "m2") }

\* The ids a path names: those an insert can have given, and one more.
Ids == 1..(MaxInserts + 1)

GoodHeader == Header(<<"B", "e", "a", "r", "e", "r", " ">> \o TokenText)

GoodJwks == Jwks("ok", <<Key(TRUE, "k1", TRUE, "n1")>>)

ValidToken(claims) == Token("kid", "k1", "n1", FALSE, TRUE, TRUE, claims)

PermissionSets ==
  { {}, Permissions } \cup { {p} : p \in Permissions }
    \cup { Permissions \ {p} : p \in Permissions }

Credential(header, jwt, jwks) == [header |-> header, jwt |-> jwt, jwks |-> jwks]

Credentials ==
  { Credential(h, ValidToken(Claims(TRUE, Permissions)), GoodJwks) :
      h \in { NoHeader, Header(<<>>), Header(<<" ">>), Header(<<"\t", " ">>),
              Header(<<"B", "e", "a", "r", "e", "r">>),
              Header(<<"B", "a", "s", "i", "c", " ">> \o TokenText),
              Header(<<"b", "e", "a", "r", "e", "r", "\t">> \o TokenText),
              Header(<<"B", "e", "a", "r", "e", "r", " ", "x">>),
              Header(<<"B", "e", "a", "r", "e", "r", " ">> \o TokenText
                       \o <<" ", "x">>) } }
    \cup { Credential(GoodHeader, ValidToken(Claims(TRUE, ps)), GoodJwks) :
             ps \in PermissionSets }
    \cup { Credential(GoodHeader, t, GoodJwks) :
             t \in { ValidToken(Claims(FALSE, {})),
                     Token("malformed", "k1", "n1", FALSE, TRUE, TRUE,
                           Claims(TRUE, Permissions)),
                     Token("nokid", "k1", "n1", FALSE, TRUE, TRUE,
                           Claims(TRUE, Permissions)),
                     Token("kid", "k2", "n1", FALSE, TRUE, TRUE,
                           Claims(TRUE, Permissions)),
                     Token("kid", "k1", "n2", FALSE, TRUE, TRUE,
                           Claims(TRUE, Permissions)),
                     Token("kid", "k1", "n1", TRUE, TRUE, TRUE,
                           Claims(TRUE, Permissions)),
                     Token("kid", "k1", "n1", FALSE, FALSE, TRUE,
                           Claims(TRUE, Permissions)),
                     Token("kid", "k1", "n1", FALSE, TRUE, FALSE,
                           Claims(TRUE, Permissions)) } }
    \cup { Credential(GoodHeader, ValidToken(Claims(TRUE, Permissions)), k) :
             k \in { Jwks("unreachable", <<>>), Jwks("notjson", <<>>),
                     Jwks("nokeys", <<>>), Jwks("ok", <<>>),
                     Jwks("ok", <<Key(FALSE, "k1", TRUE, "n1")>>),
                     Jwks("ok", <<Key(TRUE, "k1", FALSE, "n1")>>) } }

Request(endpoint, method, path, id, c, body) ==
  [endpoint |-> endpoint, method |-> method, path |-> path, id |-> id,
   header |-> c.header, jwt |-> c.jwt, jwks |-> c.jwks, body |-> body]

NoRequest == [endpoint |-> "none"]

NoResponse == [kind |-> "none"]

(***************************************************************************)
(* Specification of the token extractor alone: a request with any header   *)
(* of the model, to which get_token_auth_header is applied.                *)
(***************************************************************************)
InitExtract ==
  /\ actors = {} /\ movies = {}
  /\ nextActorId = 1 /\ nextMovieId = 1
  /\ pc = "idle"
  /\ req \in { [endpoint |-> "extract", header |-> h] : h \in Headers }
  /\ resp = NoResponse
  /\ log = <<>>

Extract ==
  /\ pc = "idle"
  /\ req.endpoint = "extract"
  /\ resp' = get_token_auth_header(req.header)
  /\ pc' = "done"
  /\ UNCHANGED <<actors, movies, nextActorId, nextMovieId, req, log>>

NextExtract == Extract

SpecExtract == InitExtract /\ [][NextExtract]_vars

(***************************************************************************)
(* Specification of the token verifier alone: any token of the model       *)
(* against any answer of the key-set endpoint.                             *)
(***************************************************************************)
InitVerify ==
  /\ actors = {} /\ movies = {}
  /\ nextActorId = 1 /\ nextMovieId = 1
  /\ pc = "idle"
  /\ req \in { [endpoint |-> "verify", jwt |-> t, jwks |-> k] :
                 t \in { u \in Tokens : u.hdr # "kid" => u.kid = "k1" },
                 k \in KeySets }
  /\ resp = NoResponse
  /\ log = <<>>

Verify ==
  /\ pc = "idle"
  /\ req.endpoint = "verify"
  /\ resp' = verify_decode_jwt(req.jwt.text, req.jwt, req.jwks)
  /\ pc' = "done"
  /\ UNCHANGED <<actors, movies, nextActorId, nextMovieId, req, log>>

NextVerify == Verify

SpecVerify == InitVerify /\ [][NextVerify]_vars

(***************************************************************************)
(* The application: one action per route.  A request is served whole       *)
(* (the wrapper, the view, the error handler), then its context ends.      *)
(***************************************************************************)
Init ==
  /\ actors = {} /\ movies = {}
  /\ nextActorId = 1 /\ nextMovieId = 1
  /\ pc = "idle"
  /\ req = NoRequest
  /\ resp = NoResponse
  /\ log = <<>>

\* @app.route(...) @requires_auth(permission) def f(jwt, ...)
Serve(r, permission) ==
  /\ LET w == requires_auth(permission, r.endpoint, r,
                            Db(actors, movies, nextActorId, nextMovieId)) IN
     /\ (w.db.nextActorId - 1) + (w.db.nextMovieId - 1) <= MaxInserts
     /\ actors' = w.db.actors
     /\ movies' = w.db.movies
     /\ nextActorId' = w.db.nextActorId
     /\ nextMovieId' = w.db.nextMovieId
     /\ resp' = handle_outcome(w.out)
     /\ log' = w.log
  /\ req' = r
  /\ pc' = "done"

GetHealth ==
  /\ pc = "idle"
  /\ req' = Request("get_health", "GET", "/", 0,
                    Credential(NoHeader, ValidToken(Claims(TRUE, {})), GoodJwks),
                    NoBody)
  /\ resp' = handle_outcome(get_health)
  /\ log' = <<>>
  /\ pc' = "done"
  /\ UNCHANGED <<actors, movies, nextActorId, nextMovieId>>

\* A URL no route matches: werkzeug raises NotFound.
NoRoute ==
  /\ pc = "idle"
  /\ req' = Request("no_route", "GET", "/invalid_endpoint", 0,
                    Credential(NoHeader, ValidToken(Claims(TRUE, {})), GoodJwks),
                    NoBody)
  /\ resp' = handle_outcome(abort(404, "Not Found"))
  /\ log' = <<>>
  /\ pc' = "done"
  /\ UNCHANGED <<actors, movies, nextActorId, nextMovieId>>

GetActors ==
  /\ pc = "idle"
  /\ \E c \in Credentials :
      Serve(Request("get_actors", "GET", "/actors", 0, c, NoBody), "get:actors")

GetMovies ==
  /\ pc = "idle"
  /\ \E c \in Credentials :
      Serve(Request("get_movies", "GET", "/movies", 0, c, NoBody), "get:movies")

CreateActor ==
  /\ pc = "idle"
  /\ \E c \in Credentials, body \in ActorBodies :
      Serve(Request("create_actor", "POST", "/actors", 0, c, body), "post:actors")

CreateMovie ==
  /\ pc = "idle"
  /\ \E c \in Credentials, body \in MovieBodies :
      Serve(Request("create_movie", "POST", "/movies", 0, c, body), "post:movies")

UpdateActor ==
  /\ pc = "idle"
  /\ \E c \in Credentials, id \in Ids, body \in ActorPatches :
      Serve(Request("update_actor", "PATCH", "/actors/<int:id>", id, c, body),
            "patch:actors")

UpdateMovie ==
  /\ pc = "idle"
  /\ \E c \in Credentials, id \in Ids, body \in MoviePatches :
      Serve(Request("update_movie", "PATCH", "/movies/<int:id>", id, c, body),
            "patch:movies")

DeleteActor ==
  /\ pc = "idle"
  /\ \E c \in Credentials, id \in Ids :
      Serve(Request("delete_actor", "DELETE", "/actors/<int:id>", id, c, NoBody),
            "delete:actors")

\* A bug variant: the route is registered with the actors' permission.
DeleteMovie_actors_permission ==
  /\ pc = "idle"
  /\ \E c \in Credentials, id \in Ids :
      Serve(Request("delete_movie", "DELETE", "/movies/<int:id>", id, c, NoBody),
            "delete:actors")

DeleteMovie ==
  /\ pc = "idle"
  /\ \E c \in Credentials, id \in Ids :
      Serve(Request("delete_movie", "DELETE", "/movies/<int:id>", id, c, NoBody),
            "delete:movies")

\* The response is sent and the request context is popped.
Complete ==
  /\ pc = "done"
  /\ pc' = "idle"
  /\ req' = NoRequest
  /\ resp' = NoResponse
  /\ log' = <<>>
  /\ UNCHANGED <<actors, movies, nextActorId, nextMovieId>>

Next ==
  \/ GetHealth
  \/ NoRoute
  \/ GetActors
  \/ GetMovies
  \/ CreateActor
  \/ CreateMovie
  \/ UpdateActor
  \/ UpdateMovie
  \/ DeleteActor
  \/ DeleteMovie
  \/ Complete

Spec == Init /\ [][Next]_vars

(***************************************************************************)
(* Requests handled concurrently.  Each request in flight has its own      *)
(* position in requires_auth's wrapper: "extract", "fetch" (the blocking   *)
(* urlopen of verify_decode_jwt), "verify" (the rest of it), "check",      *)
(* "view", "done".  Steps of different requests interleave freely.  pc,    *)
(* req, resp and log are here functions of the request's slot; the tables  *)
(* are shared.  What the key-set endpoint answers is chosen at each fetch: *)
(* it may differ from one fetch to the next.  log[i] counts the fetches    *)
(* made for request i and keeps the payload verification gave and the      *)
(* outcome of the authorization (the claims passed on, or the error).      *)
(* A view runs as one step (its transaction).                              *)
(***************************************************************************)
Rids == {1, 2}

Pending == [kind |-> "pending"]

Unfetched == Jwks("unfetched", <<>>)

NoLog == [fetches |-> 0, payload |-> Pending, auth |-> Pending]

FetchAnswers == { GoodJwks, Jwks("unreachable", <<>>), Jwks("ok", <<>>) }

ConcCredentials ==
  { Credential(NoHeader, ValidToken(Claims(TRUE, Permissions)), Unfetched),
    Credential(Header(<<" ">>), ValidToken(Claims(TRUE, Permissions)), Unfetched),
    Credential(GoodHeader, ValidToken(Claims(TRUE, Permissions)), Unfetched),
    Credential(GoodHeader, ValidToken(Claims(TRUE, {"get:actors"})), Unfetched),
    Credential(GoodHeader,
               Token("kid", "k1", "n1", TRUE, TRUE, TRUE,
                     Claims(TRUE, Permissions)), Unfetched) }

ConcRequests ==
  { Request("get_actors", "GET", "/actors", 0, c, NoBody) :
      c \in ConcCredentials }
    \cup { Request("create_actor", "POST", "/actors", 0, c,
                   ActorBody({"name", "age", "gender"}, "a1", 40)) :
             c \in ConcCredentials }
    \cup { Request("delete_actor", "DELETE", "/actors/<int:id>", 1, c, NoBody) :
             c \in ConcCredentials }

\* The permission the route of a view is registered with.
route_permission(f) ==
  CASE f = "get_actors" -> "get:actors"
    [] f = "create_actor" -> "post:actors"
    [] f = "delete_actor" -> "delete:actors"

InitConc ==
  /\ actors = {} /\ movies = {}
  /\ nextActorId = 1 /\ nextMovieId = 1
  /\ pc = [i \in Rids |-> "idle"]
  /\ req = [i \in Rids |-> NoRequest]
  /\ resp = [i \in Rids |-> NoResponse]
  /\ log = [i \in Rids |-> NoLog]

\* The request ends with outcome out: Flask makes the response of it.
Finish(i, out) ==
  /\ resp' = [resp EXCEPT ![i] = handle_outcome(out)]
  /\ pc' = [pc EXCEPT ![i] = "done"]

\* A request arrives and the wrapper is entered.
ArriveStep(i) ==
  /\ pc[i] = "idle"
  /\ \E r \in ConcRequests : req' = [req EXCEPT ![i] = r]
  /\ pc' = [pc EXCEPT ![i] = "extract"]
  /\ UNCHANGED <<actors, movies, nextActorId, nextMovieId, resp, log>>

\* token = get_token_auth_header()
ExtractStep(i) ==
  /\ pc[i] = "extract"
  /\ LET token == get_token_auth_header(req[i].header) IN
     IF token.kind = "return"
     THEN /\ pc' = [pc EXCEPT ![i] = "fetch"]
          /\ UNCHANGED <<resp, log>>
     ELSE /\ Finish(i, token)
          /\ log' = [log EXCEPT ![i].auth = token]
  /\ UNCHANGED <<actors, movies, nextActorId, nextMovieId, req>>

\* A bug variant: an unreachable endpoint is asked again.
FetchStep_retry(i) ==
  /\ pc[i] = "fetch"
  /\ log[i].fetches < 2
  /\ \E k \in FetchAnswers :
       /\ req' = [req EXCEPT ![i].jwks = k]
       /\ pc' = [pc EXCEPT ![i] = IF k.status = "unreachable"
                                  /\ log[i].fetches = 0
                                  THEN "fetch" ELSE "verify"]
  /\ log' = [log EXCEPT ![i].fetches = @ + 1]
  /\ UNCHANGED <<actors, movies, nextActorId, nextMovieId, resp>>

\* jsonurl = urlopen(...); jwks = json.loads(jsonurl.read()): one fetch, whose
\* answer (or failure) is what verification goes on with.
FetchStep(i) ==
  /\ pc[i] = "fetch"
  /\ \E k \in FetchAnswers : req' = [req EXCEPT ![i].jwks = k]
  /\ pc' = [pc EXCEPT ![i] = "verify"]
  /\ log' = [log EXCEPT ![i].fetches = @ + 1]
  /\ UNCHANGED <<actors, movies, nextActorId, nextMovieId, resp>>

\* payload = verify_decode_jwt(token), after the fetch
VerifyStep(i) ==
  /\ pc[i] = "verify"
  /\ LET token == get_token_auth_header(req[i].header)
         payload == verify_decode_jwt(token.value, req[i].jwt, req[i].jwks) IN
     IF payload.kind = "return"
     THEN /\ pc' = [pc EXCEPT ![i] = "check"]
          /\ log' = [log EXCEPT ![i].payload = payload]
          /\ UNCHANGED resp
     ELSE /\ Finish(i, payload)
          /\ log' = [log EXCEPT ![i].payload = payload, ![i].auth = payload]
  /\ UNCHANGED <<actors, movies, nextActorId, nextMovieId, req>>

\* A bug variant: the payload is kept in a module-level variable, which the
\* check reads after another request's verification has overwritten it.
CheckStep_global_payload(i) ==
  /\ pc[i] = "check"
  /\ LET others == { j \in Rids : j # i /\ log[j].payload.kind = "return"
                                   /\ pc[j] # "done" }
         src == IF others = {} THEN i ELSE CHOOSE j \in others : TRUE
         payload == log[src].payload
         checked == check_permissions(route_permission(req[i].endpoint),
                                      payload.value) IN
     IF checked.kind = "return"
     THEN /\ pc' = [pc EXCEPT ![i] = "view"]
          /\ log' = [log EXCEPT ![i].auth = Return(payload.value)]
          /\ UNCHANGED resp
     ELSE /\ Finish(i, checked)
          /\ log' = [log EXCEPT ![i].auth = checked]
  /\ UNCHANGED <<actors, movies, nextActorId, nextMovieId, req>>

\* check_permissions(permission, payload)
CheckStep(i) ==
  /\ pc[i] = "check"
  /\ LET payload == log[i].payload
         checked == check_permissions(route_permission(req[i].endpoint),
                                      payload.value) IN
     IF checked.kind = "return"
     THEN /\ pc' = [pc EXCEPT ![i] = "view"]
          /\ log' = [log EXCEPT ![i].auth = Return(payload.value)]
          /\ UNCHANGED resp
     ELSE /\ Finish(i, checked)
          /\ log' = [log EXCEPT ![i].auth = checked]
  /\ UNCHANGED <<actors, movies, nextActorId, nextMovieId, req>>

\* return f(payload, *args, **kwargs)
ViewStep(i) ==
  /\ pc[i] = "view"
  /\ LET v == call_view(req[i].endpoint, log[i].auth.value, req[i],
                        Db(actors, movies, nextActorId, nextMovieId)) IN
     /\ (v.db.nextActorId - 1) + (v.db.nextMovieId - 1) <= MaxInserts
     /\ actors' = v.db.actors
     /\ movies' = v.db.movies
     /\ nextActorId' = v.db.nextActorId
     /\ nextMovieId' = v.db.nextMovieId
     /\ Finish(i, v.out)
  /\ UNCHANGED <<req, log>>

\* The response is sent and the request context is popped.
CompleteStep(i) ==
  /\ pc[i] = "done"
  /\ pc' = [pc EXCEPT ![i] = "idle"]
  /\ req' = [req EXCEPT ![i] = NoRequest]
  /\ resp' = [resp EXCEPT ![i] = NoResponse]
  /\ log' = [log EXCEPT ![i] = NoLog]
  /\ UNCHANGED <<actors, movies, nextActorId, nextMovieId>>

NextConc ==
  \/ \E i \in Rids : ArriveStep(i)
  \/ \E i \in Rids : ExtractStep(i)
  \/ \E i \in Rids : FetchStep(i)
  \/ \E i \in Rids : VerifyStep(i)
  \/ \E i \in Rids : CheckStep(i)
  \/ \E i \in Rids : ViewStep(i)
  \/ \E i \in Rids : CompleteStep(i)

SpecConc == InitConc /\ [][NextConc]_vars

(***************************************************************************)
(* Vocabulary of the properties.                                           *)
(***************************************************************************)
Protected == {"get_actors", "get_movies", "create_actor", "create_movie",
              "update_actor", "update_movie", "delete_actor", "delete_movie"}

\* The permission each protected endpoint is documented to require.
RequiredPermission(endpoint) ==
  CASE endpoint = "get_actors" -> "get:actors"
    [] endpoint = "get_movies" -> "get:movies"
    [] endpoint = "create_actor" -> "post:actors"
    [] endpoint = "create_movie" -> "post:movies"
    [] endpoint = "update_actor" -> "patch:actors"
    [] endpoint = "update_movie" -> "patch:movies"
    [] endpoint = "delete_actor" -> "delete:actors"
    [] endpoint = "delete_movie" -> "delete:movies"

Pipeline == <<"get_token_auth_header", "verify_decode_jwt", "check_permissions">>

\* The request carries a token that extraction and verification accept.
Verified(r) ==
  LET token == get_token_auth_header(r.header) IN
  IF token.kind # "return" THEN FALSE
  ELSE verify_decode_jwt(token.value, r.jwt, r.jwks).kind = "return"

\* ... and whose claims grant the permission.
Authorized(r, permission) ==
  /\ Verified(r)
  /\ r.jwt.claims.hasPermissions
  /\ permission \in r.jwt.claims.permissions

\* The maximal whitespace-free runs of a text, as pairs of positions.
WordRuns(t) ==
  { run \in (1..Len(t)) \X (1..Len(t)) :
      /\ run[1] <= run[2]
      /\ \A k \in run[1]..run[2] : t[k] \notin Whitespace
      /\ run[1] = 1 \/ t[run[1] - 1] \in Whitespace
      /\ run[2] = Len(t) \/ t[run[2] + 1] \in Whitespace }

\* The k-th of them, from the left.
Word(t, k) ==
  LET run == CHOOSE r \in WordRuns(t) :
               Cardinality({ q \in WordRuns(t) : q[1] < r[1] }) = k - 1 IN
  SubSeq(t, run[1], run[2])

StartsWithBearer(t) ==
  Len(t) >= Len(Bearer) /\ lower(SubSeq(t, 1, Len(Bearer))) = Bearer

IsAuthError(out, code, status) ==
  out.kind = "AuthError" /\ out.code = code /\ out.status_code = status

(***************************************************************************)
(* C1: for a request to a protected endpoint, the wrapped view is invoked  *)
(* exactly when get_token_auth_header, verify_decode_jwt and               *)
(* check_permissions (for the endpoint's permission) all succeed, in that  *)
(* order; it is then invoked once, with the decoded claims, and the        *)
(* response is the one made of its result.  When a stage fails, the calls  *)
(* stop at that stage, the view is not invoked, and the response is the    *)
(* one made of that stage's error.                                         *)
(***************************************************************************)
C1_GateInvokesViewIffAllStagesPass ==
  (pc = "done" /\ req.endpoint \in Protected) =>
    LET token == get_token_auth_header(req.header)
        payload == verify_decode_jwt(token.value, req.jwt, req.jwks)
        checked == check_permissions(RequiredPermission(req.endpoint),
                                     payload.value)
        allPass == IF token.kind # "return" THEN FALSE
                   ELSE IF payload.kind # "return" THEN FALSE
                   ELSE checked.kind = "return"
        invocations == { i \in DOMAIN log : log[i].fn = req.endpoint }
        n == Len(log) IN
    /\ Cardinality(invocations) = IF allPass THEN 1 ELSE 0
    /\ n >= 1
    /\ \A i \in 1..n : i <= 3 => log[i].fn = Pipeline[i]
    /\ \A i \in 1..(n - 1) : log[i].out.kind = "return"
    /\ resp = handle_outcome(log[n].out)
    /\ IF allPass
       THEN /\ n = 4
            /\ log[4].fn = req.endpoint
            /\ log[4].arg = payload.value
       ELSE /\ n <= 3
            /\ log[n].out.kind # "return"

C1_Witness ==
  /\ pc = "done"
  /\ req.endpoint = "create_actor"
  /\ Len(log) = 4
  /\ log[4].arg = req.jwt.claims
  /\ resp.status = 200
  /\ actors # {}

(***************************************************************************)
(* C2: a request to a protected endpoint with a verified token whose       *)
(* permissions do not include the endpoint's permission is answered 403    *)
(* "Permission not found.", and both tables are as before the request.     *)
(***************************************************************************)
C2_ForbiddenRequestChangesNothing ==
  [][(/\ pc' = "done"
      /\ req'.endpoint \in Protected
      /\ Verified(req')
      /\ req'.jwt.claims.hasPermissions
      /\ RequiredPermission(req'.endpoint) \notin req'.jwt.claims.permissions)
     => /\ resp'.status = 403
        /\ resp'.body.success = FALSE
        /\ resp'.body.message = "Permission not found."
        /\ actors' = actors
        /\ movies' = movies]_vars

C2_Witness ==
  /\ pc = "done"
  /\ req.endpoint = "delete_actor"
  /\ req.jwt.claims.permissions = Permissions \ {"delete:actors"}
  /\ \E a \in actors : a.id = req.id
  /\ resp.status = 403

(***************************************************************************)
(* C3: every stage of the authorization pipeline that fails, fails with an *)
(* AuthError of status 400, 401 or 403 and with nothing else.              *)
(***************************************************************************)
C3_PipelineFailsOnlyWithAuthError ==
  (pc = "done" /\ req.endpoint \in Protected) =>
    \A i \in 1..Len(log) :
      (log[i].fn \in {Pipeline[1], Pipeline[2], Pipeline[3]}
         /\ log[i].out.kind # "return")
        => /\ log[i].out.kind = "AuthError"
           /\ log[i].out.status_code \in {400, 401, 403}

(***************************************************************************)
(* C4: a header that is present (with a text that is not empty) and whose  *)
(* text does not start with "bearer" (in any case) fails with              *)
(* invalid_header, status 401; also when the text is only whitespace.      *)
(***************************************************************************)
C4_NonBearerHeaderIsInvalidHeader ==
  (pc = "done" /\ req.endpoint = "extract" /\ req.header.present
     /\ req.header.text # <<>> /\ ~StartsWithBearer(req.header.text))
    => IsAuthError(resp, "invalid_header", 401)

(***************************************************************************)
(* C5: against a key set that was fetched and is well formed (every key    *)
(* has its fields, no two keys share a kid) the verifier answers with the  *)
(* error of the first stage that fails: header parse (invalid_header,      *)
(* 400), missing kid (invalid_header, 401), no key with the kid            *)
(* (invalid_header, 400, "Unable to find the appropriate key."), then the  *)
(* verification with that key: expired (token_expired, 401), audience or   *)
(* issuer mismatch (invalid_claims, 401), anything else (invalid_header,   *)
(* 400); it returns the claims only when all stages pass.                  *)
(***************************************************************************)
WellFormedKeySet(jwks) ==
  /\ jwks.status = "ok"
  /\ \A i \in DOMAIN jwks.keys : jwks.keys[i].hasKid /\ jwks.keys[i].complete
  /\ \A i, j \in DOMAIN jwks.keys :
       jwks.keys[i].kid = jwks.keys[j].kid => i = j

PermissionCheckOutcome(permission, payload, missingMessage) ==
  IF ~payload.hasPermissions
  THEN AuthError("invalid_claims", missingMessage, 403)
  ELSE IF permission \notin payload.permissions
  THEN AuthError("unauthorized", "Permission not found.", 403)
  ELSE Return(TRUE)

PermissionCheckIs(missingMessage) ==
    (pc' = "done" /\ req'.endpoint \in Protected /\ Len(log') >= 3)
     => LET call == log'[3]
            permission == call.arg[1]
            payload == call.arg[2] IN
        /\ call.fn = "check_permissions"
        /\ permission = RequiredPermission(req'.endpoint)
        /\ payload = req'.jwt.claims
        /\ call.out = PermissionCheckOutcome(permission, payload, missingMessage)
        /\ call.out.kind # "return"
             => /\ Len(log') = 3
                /\ resp' = auth_error(call.out)
                /\ actors' = actors /\ movies' = movies
                /\ nextActorId' = nextActorId /\ nextMovieId' = nextMovieId
        /\ call.out.kind = "return"
             => Len(log') = 4 /\ log'[4].arg = payload

C7_ThreeOutcomesOfPermissionCheck ==
  [][PermissionCheckIs("Permissions not included in JWT.")]_vars

\* C7 as claimed: the message of the first outcome without its full stop.
C7_AsClaimed == [][PermissionCheckIs("Permissions not included in JWT")]_vars

C7_Witness ==
  /\ pc = "done"
  /\ req.endpoint = "update_actor"
  /\ Len(log) = 3
  /\ ~req.jwt.claims.hasPermissions
  /\ \E a \in actors : a.id = req.id
  /\ resp.status = 403
  /\ resp.body.message = "Permissions not included in JWT."

(***************************************************************************)
(* C8: every response is a JSON object with a boolean success; a failure   *)
(* (status 400 or more) also carries error, equal to the status, and a     *)
(* message.                                                                *)
(***************************************************************************)
C8_EveryResponseIsAnEnvelope ==
  pc = "done" =>
    /\ resp.mimetype = "application/json"
    /\ "success" \in DOMAIN resp.body
    /\ resp.body.success \in BOOLEAN
    /\ resp.status >= 400
         => /\ resp.body.success = FALSE
            /\ "error" \in DOMAIN resp.body
            /\ resp.body.error = resp.status
            /\ "message" \in DOMAIN resp.body

(***************************************************************************)
(* C9: GET /actors with a valid token that grants get:actors is answered   *)
(* 200, success true, with all stored actors, when at least one actor is   *)
(* stored; when none is stored it is answered 404.                         *)
(***************************************************************************)
ListsAllActors ==
  /\ resp.status = 200
  /\ resp.body.success = TRUE
  /\ resp.body.actors = actors

C9_GetActorsListsAllWhenAny ==
  (pc = "done" /\ req.endpoint = "get_actors"
     /\ Authorized(req, "get:actors"))
    => IF actors # {}
       THEN ListsAllActors
       ELSE /\ resp.status = 404
            /\ resp.body.success = FALSE

\* C9 as claimed: in every state of the actor store.
C9_AsClaimed ==
  (pc = "done" /\ req.endpoint = "get_actors"
     /\ Authorized(req, "get:actors"))
    => ListsAllActors

C9_Witness ==
  /\ pc = "done"
  /\ req.endpoint = "get_actors"
  /\ Authorized(req, "get:actors")
  /\ Cardinality(actors) = 2
  /\ resp.status = 200

(***************************************************************************)
(* C10: DELETE /actors/{id} (DELETE /movies/{id}) with a valid token that  *)
(* grants the endpoint's delete permission: when a row with that id is     *)
(* stored, the answer is 200 with success true, that row is gone and every *)
(* other row of both tables is as before; when none is, the answer is 404  *)
(* and both tables are as before.                                          *)
(***************************************************************************)
C10_DeleteRemovesExactlyThatRow ==
  [][(pc' = "done" /\ req'.endpoint \in {"delete_actor", "delete_movie"}
        /\ Authorized(req', RequiredPermission(req'.endpoint)))
     => LET ofActors == req'.endpoint = "delete_actor"
            table == IF ofActors THEN actors ELSE movies
            tableAfter == IF ofActors THEN actors' ELSE movies'
            otherSame == IF ofActors THEN movies' = movies
                         ELSE actors' = actors IN
        IF \E row \in table : row.id = req'.id
        THEN /\ resp'.status = 200
             /\ resp'.body.success = TRUE
             /\ tableAfter = { row \in table : row.id # req'.id }
             /\ otherSame
        ELSE /\ resp'.status = 404
             /\ tableAfter = table
             /\ otherSame]_vars

C10_Witness ==
  /\ pc = "done"
  /\ req.endpoint = "delete_actor"
  /\ Authorized(req, "delete:actors")
  /\ resp.status = 200
  /\ req.id = 1
  /\ \E a \in actors : a.id = 2
  /\ nextActorId = 3

(***************************************************************************)
(* C11: under any interleaving of the requests in flight, the outcome of   *)
(* a request's authorization (the claims passed on, or its error) is the   *)
(* one its own header and token, the key set fetched for it and its        *)
(* endpoint's permission give, so two requests that agree on these have    *)
(* the same outcome; a step of the pipeline (extract, fetch, verify,       *)
(* check) changes neither the tables nor anything of another request; and  *)
(* the key set is fetched once per verification, never again.              *)
(***************************************************************************)
InPipeline == {"extract", "fetch", "verify", "check"}

\* The outcome the pipeline has, as a function of its inputs alone.
AuthorizationOutcome(header, jwt, jwks, permission) ==
  LET token == get_token_auth_header(header) IN
  IF token.kind # "return" THEN token
  ELSE LET payload == verify_decode_jwt(token.value, jwt, jwks) IN
       IF payload.kind # "return" THEN payload
       ELSE LET checked == check_permissions(permission, payload.value) IN
            IF checked.kind # "return" THEN checked
            ELSE Return(payload.value)

Decided(l) == l.auth.kind # "pending"

C11_AuthorizationIsPerRequest ==
  [][/\ \A i \in Rids :
          /\ Decided(log'[i])
               => log'[i].auth =
                    AuthorizationOutcome(req'[i].header, req'[i].jwt,
                                         req'[i].jwks,
                                         RequiredPermission(req'[i].endpoint))
          /\ log'[i].fetches =
               IF pc'[i] \in {"idle", "extract", "fetch"}
                  \/ get_token_auth_header(req'[i].header).kind # "return"
               THEN 0 ELSE 1
          /\ \A j \in Rids :
               (/\ Decided(log'[i]) /\ Decided(log'[j])
                /\ req'[i].header = req'[j].header
                /\ req'[i].jwt = req'[j].jwt
                /\ req'[i].jwks = req'[j].jwks
                /\ RequiredPermission(req'[i].endpoint)
                     = RequiredPermission(req'[j].endpoint))
                 => log'[i].auth = log'[j].auth
     /\ \A i \in Rids :
          (pc[i] \in InPipeline /\ pc'[i] # pc[i])
            => /\ actors' = actors /\ movies' = movies
               /\ nextActorId' = nextActorId /\ nextMovieId' = nextMovieId
               /\ \A j \in Rids \ {i} :
                    /\ pc'[j] = pc[j] /\ req'[j] = req[j]
                    /\ resp'[j] = resp[j] /\ log'[j] = log[j]]_vars

\* Two requests in flight together with the same header, token, fetched key
\* set and permission: the first was let through and its view has inserted a
\* row, the second has its authorization decided and its view still to run.
C11_Witness ==
  /\ pc[1] = "done" /\ pc[2] = "view"
  /\ req[1].endpoint = "create_actor" /\ req[2].endpoint = "create_actor"
  /\ req[1].header = req[2].header /\ req[1].jwt = req[2].jwt
  /\ req[1].jwks = req[2].jwks
  /\ resp[1].status = 200
  /\ actors # {}
  /\ log[1].fetches = 1 /\ log[2].fetches = 1
  /\ log[2].auth = log[1].auth
  /\ log[2].auth = Return(req[2].jwt.claims)

====
